---- MODULE Spec2Model ----
(***************************************************************************)
(* The consistent hash ring of pseudomuto/hashlab (hashring/hashing.go).   *)
(*                                                                         *)
(* Strings are sequences of bytes.  hashKey is CRC-32/IEEE, computed bit   *)
(* by bit, so collisions between virtual nodes are the collisions the      *)
(* program really has.  Indexes are 0-based as in Go; element i of a slice *)
(* s is s[i + 1].                                                          *)
(***************************************************************************)
EXTENDS Integers, Sequences, FiniteSets, TLC

VARIABLES
    vnodes,      \* HashRing.vnodes
    servers,     \* HashRing.servers: the set of names mapped to true
    ring,        \* HashRing.ring: hash -> server name
    serverKeys,  \* HashRing.serverKeys
    ret,         \* the last call and what it returned
    live,        \* history: the servers whose latest AddServer or
                 \* RemoveServer call that returned nil is an AddServer
    watch,       \* the key whose GetServer results are recorded
    first,       \* history: the first GetServer(watch) result since the
                 \* last AddServer or RemoveServer call that returned nil
    repeat,      \* history: the last call is a GetServer(watch) that is
                 \* not the first since then
    everAdded,   \* history: some AddServer call has returned nil
    onceAdded,   \* history, kept by SpecHist only: the servers for which
                 \* an AddServer call has returned nil
    pc,          \* SpecConc: per goroutine, where it is in its call
    call,        \* SpecConc: per goroutine, the call it is in
    iter,        \* SpecConc: per goroutine, the loop variable i
    got,         \* SpecConc: per goroutine, what its last lookup returned
    mu,          \* SpecConc: HashRing.mu, a sync.RWMutex
    snap,        \* SpecConc, history: servers, ring and serverKeys when the
                 \* write lock was last free
    distCalled,  \* SpecConc, history: GetDistribution has been called
    test,        \* SpecSample: the locals of the test that samples keys
    addOrder,    \* history, kept by SpecOrder only: the members, in the
                 \* order of the AddServer calls that made them members
    prior        \* history, kept by SpecOrder only: when the last call is
                 \* an AddServer that returned nil, its server and the
                 \* servers, ring and serverKeys it found

\* the state of the goroutines and of the lock
goroutines == <<pc, call, iter, got, mu, snap, distCalled>>

vars == <<vnodes, servers, ring, serverKeys, ret, live, watch, first, repeat,
          everAdded, onceAdded, goroutines, test, addOrder, prior>>

----------------------------------------------------------------------------
(* Bounds *)

\* New(virtualNodes) is called with virtualNodes in 0..MaxVNodes
MaxVNodes == 2

\* the number of goroutines that call the ring in SpecConc
NumProcs == 2

----------------------------------------------------------------------------
(* Inputs: server names and keys, as byte strings *)

\* "bsvnxu" and "bo92ya" have the same CRC-32, hence so do "bsvnxu#i" and
\* "bo92ya#i" for every i
SrvA == <<98, 115, 118, 110, 120, 117>>
SrvB == <<98, 111, 57, 50, 121, 97>>
\* "ihkxqe#0" and "o6447u#1" have the same CRC-32, and so do "ihkxqe#1" and
\* "o6447u#0"; "ihkxqe#2" and "o6447u#2" differ
SrvC == <<105, 104, 107, 120, 113, 101>>
SrvD == <<111, 54, 52, 52, 55, 117>>
\* "server1", as in hashing_test.go
SrvE == <<115, 101, 114, 118, 101, 114, 49>>

ServerNames == {SrvA, SrvB, SrvC, SrvD, SrvE}

\* "key-1": its hash is below every virtual node of ServerNames
KeyLow == <<107, 101, 121, 45, 49>>
\* "key-3": its hash is above every virtual node of ServerNames
KeyHigh == <<107, 101, 121, 45, 51>>
\* "key-10", "key-0", "key-53", "key-57": between virtual nodes
KeyMid1 == <<107, 101, 121, 45, 49, 48>>
KeyMid2 == <<107, 101, 121, 45, 48>>
KeyMid3 == <<107, 101, 121, 45, 53, 51>>
KeyMid4 == <<107, 101, 121, 45, 53, 55>>
\* "bsvnxu#0": its hash is equal to a virtual node of "bsvnxu"
KeyEq == <<98, 115, 118, 110, 120, 117, 35, 48>>

Keys == {KeyLow, KeyHigh, KeyMid1, KeyMid2, KeyMid3, KeyMid4, KeyEq}

\* the empty string, Go's zero value of string
EmptyString == <<>>

----------------------------------------------------------------------------
(* hash/crc32: ChecksumIEEE *)

\* A uint32 is the pair <<high 16 bits, low 16 bits>>: TLC's integers are
\* 32-bit signed and cannot hold the upper half of the uint32 range.
Half == 65536

U32Less(a, b) == a[1] < b[1] \/ (a[1] = b[1] /\ a[2] < b[2])

\* a >= b on uint32
U32Geq(a, b) == ~U32Less(a, b)

RECURSIVE XorBits(_, _, _)
\* bitwise exclusive or of a and b over their n low bits
XorBits(a, b, n) ==
    IF n = 0 THEN 0
    ELSE ((a + b) % 2) + 2 * XorBits(a \div 2, b \div 2, n - 1)

\* a ^ b for every pair of 4-bit values, computed once: a and b at 16 * a + b + 1
XorNibbles == SubSeq([k \in 1..256 |-> XorBits((k - 1) \div 16, (k - 1) % 16, 4)], 1, 256)

\* a ^ b on 4-bit values
Xor4(a, b) == XorNibbles[16 * a + b + 1]

\* a ^ b on uint16, four bits at a time
Xor16(a, b) ==
    4096 * Xor4(a \div 4096, b \div 4096)
       + 256 * Xor4((a \div 256) % 16, (b \div 256) % 16)
       + 16 * Xor4((a \div 16) % 16, (b \div 16) % 16)
       + Xor4(a % 16, b % 16)

\* the reversed IEEE polynomial 0xEDB88320, as 0xEDB8 and 0x8320
IEEEPoly == <<60856, 33568>>

\* crc >> n, for n < 16
ShiftRight(crc, n) ==
    <<crc[1] \div (2 ^ n), (crc[2] \div (2 ^ n)) + (crc[1] % (2 ^ n)) * (Half \div (2 ^ n))>>

Xor32(a, b) == <<Xor16(a[1], b[1]), Xor16(a[2], b[2])>>

RECURSIVE ShiftBits(_, _)
\* n steps of the bit-serial register update: shift right, and subtract the
\* polynomial when a one falls out
ShiftBits(crc, n) ==
    IF n = 0 THEN crc
    ELSE ShiftBits(IF crc[2] % 2 = 1 THEN Xor32(ShiftRight(crc, 1), IEEEPoly)
                                     ELSE ShiftRight(crc, 1),
                   n - 1)

\* crc32.IEEETable: the register after one byte, for each byte
IEEETable == [b \in 0..255 |-> ShiftBits(<<0, b>>, 8)]

\* the uint32 values, as pairs of 16-bit halves
U32 == (0..(Half - 1)) \X (0..(Half - 1))

\* one step of crc32's update loop, for the register and the next byte:
\* crc = tab[byte(crc) ^ v] ^ (crc >> 8)
UpdateByte ==
    [crc \in U32, v \in 0..255 |->
        Xor32(IEEETable[Xor16(crc[2] % 256, v)], ShiftRight(crc, 8))]

RECURSIVE UpdateCRC(_, _, _)
\* the register after the first n bytes of data have been fed in
UpdateCRC(crc, data, n) ==
    IF n = 0 THEN crc
    ELSE UpdateByte[UpdateCRC(crc, data, n - 1), data[n]]

\* crc32.ChecksumIEEE(data): register preset to all ones, result inverted
Checksum(data) ==
    LET r == UpdateCRC(<<Half - 1, Half - 1>>, data, Len(data))
    IN  <<(Half - 1) - r[1], (Half - 1) - r[2]>>

----------------------------------------------------------------------------
(* Helpers from fmt, slices, sort and the map type *)

RECURSIVE Itoa(_)
\* the decimal digits of i >= 0, as fmt's %d prints them
Itoa(i) == IF i < 10 THEN <<48 + i>> ELSE Itoa(i \div 10) \o <<48 + (i % 10)>>

\* fmt.Sprintf("%s#%d", server, i)
Sprintf(server, i) == server \o <<35>> \o Itoa(i)

\* every string the model hashes
Inputs == Keys \cup {Sprintf(s, i) : s \in ServerNames, i \in 0..(MaxVNodes - 1)}

\* crc32.ChecksumIEEE on Inputs, computed once
ChecksumIEEE == [data \in Inputs |-> Checksum(data)]

\* HashRing.hashKey
hashKey(key) == IF key \in Inputs THEN ChecksumIEEE[key] ELSE Checksum(key)

\* m[k] = v
MapSet(m, k, v) == [x \in (DOMAIN m) \cup {k} |-> IF x = k THEN v ELSE m[x]]

\* delete(m, k)
MapDelete(m, k) == [x \in (DOMAIN m) \ {k} |-> m[x]]

\* m[k] read: the zero value when k is absent
MapGet(m, k) == IF k \in DOMAIN m THEN m[k] ELSE EmptyString

\* make(map[uint32]string)
EmptyMap == [x \in {} |-> EmptyString]

RECURSIVE CountBelow(_, _, _, _)
\* the number of elements of the ascending p[i+1..j] that are below k, plus i
CountBelow(p, k, i, j) ==
    IF i >= j THEN i
    ELSE LET h == (i + j) \div 2
         IN  IF p[h + 1] < k THEN CountBelow(p, k, h + 1, j) ELSE CountBelow(p, k, i, h)

RECURSIVE CountLess(_, _, _, _, _)
\* the number of elements of the ascending b[i+1..j] that are less than x,
\* or not greater than x when orEqual, plus i
CountLess(b, x, orEqual, i, j) ==
    IF i >= j THEN i
    ELSE LET h == (i + j) \div 2
         IN  IF U32Less(b[h + 1], x) \/ (orEqual /\ b[h + 1] = x)
                THEN CountLess(b, x, orEqual, h + 1, j)
                ELSE CountLess(b, x, orEqual, i, h)

\* the ascending a and b in one ascending sequence: a[i] comes after the
\* elements of b that are less than it
Merge(a, b) ==
    LET n  == Len(a) + Len(b)
        pa == [i \in 1..Len(a) |-> i + CountLess(b, a[i], FALSE, 0, Len(b))]
    IN  SubSeq([k \in 1..n |->
                   LET c == CountBelow(pa, k, 0, Len(a))
                   IN  IF c < Len(a) /\ pa[c + 1] = k THEN a[c + 1] ELSE b[k - c]],
               1, n)

RECURSIVE InsertSorted(_, _)
\* s, ascending, with x put in before the first greater element
InsertSorted(s, x) ==
    IF s = <<>> THEN <<x>>
    ELSE IF U32Less(x, Head(s)) THEN <<x>> \o s
    ELSE <<Head(s)>> \o InsertSorted(Tail(s), x)

RECURSIVE SortKeys(_)
\* slices.Sort on a []uint32: insertion sort up to 12 elements, as the
\* library does; a longer slice is sorted in two halves that are merged
SortKeys(s) ==
    IF s = <<>> THEN <<>>
    ELSE IF Len(s) <= 12 THEN InsertSorted(SortKeys(Tail(s)), Head(s))
    ELSE LET h == Len(s) \div 2
         IN  Merge(SortKeys(SubSeq(s, 1, h)), SortKeys(SubSeq(s, h + 1, Len(s))))

RECURSIVE StrLessFrom(_, _, _)
StrLessFrom(a, b, i) ==
    IF i > Len(a) THEN i <= Len(b)
    ELSE IF i > Len(b) THEN FALSE
    ELSE IF a[i] # b[i] THEN a[i] < b[i]
    ELSE StrLessFrom(a, b, i + 1)

\* a < b on strings: byte-wise lexicographic order
StrLess(a, b) == StrLessFrom(a, b, 1)

RECURSIVE InsertSortedStr(_, _)
InsertSortedStr(s, x) ==
    IF s = <<>> THEN <<x>>
    ELSE IF StrLess(x, Head(s)) THEN <<x>> \o s
    ELSE <<Head(s)>> \o InsertSortedStr(Tail(s), x)

RECURSIVE SortStrings(_)
\* slices.Sort on a []string
SortStrings(s) == IF s = <<>> THEN <<>> ELSE InsertSortedStr(SortStrings(Tail(s)), Head(s))

RECURSIVE IterationOrders(_)
\* the orders in which a range loop may visit the keys of a map
IterationOrders(keySet) ==
    IF keySet = {} THEN {<<>>}
    ELSE UNION {{<<x>> \o o : o \in IterationOrders(keySet \ {x})} : x \in keySet}

RECURSIVE IndexFrom(_, _, _)
IndexFrom(s, v, i) ==
    IF i >= Len(s) THEN -1
    ELSE IF s[i + 1] = v THEN i
    ELSE IndexFrom(s, v, i + 1)

\* slices.Index(s, v): the first index of v in s, or -1
Index(s, v) == IndexFrom(s, v, 0)

\* DeleteAt that moves the last element into the hole
DeleteAt_Swap(s, idx) == SubSeq([s EXCEPT ![idx + 1] = s[Len(s)]], 1, Len(s) - 1)

\* append(s[:idx], s[idx+1:]...), for 0 <= idx < len(s)
DeleteAt(s, idx) == SubSeq(s, 1, idx) \o SubSeq(s, idx + 2, Len(s))

RECURSIVE SearchBetween(_, _, _, _)
\* the loop of sort.Search with f(i) = keys[i] >= hash
SearchBetween(keys, hash, i, j) ==
    IF i >= j THEN i
    ELSE LET h == (i + j) \div 2
         IN  IF ~U32Geq(keys[h + 1], hash)
                THEN SearchBetween(keys, hash, h + 1, j)
                ELSE SearchBetween(keys, hash, i, h)

RECURSIVE SearchBetweenStrict(_, _, _, _)
SearchBetweenStrict(keys, hash, i, j) ==
    IF i >= j THEN i
    ELSE LET h == (i + j) \div 2
         IN  IF ~U32Less(hash, keys[h + 1])
                THEN SearchBetweenStrict(keys, hash, h + 1, j)
                ELSE SearchBetweenStrict(keys, hash, i, h)

\* Search with the predicate keys[i] > hash instead of keys[i] >= hash
Search_Strict(keys, hash) == SearchBetweenStrict(keys, hash, 0, Len(keys))

\* sort.Search(len(keys), func(i) { return keys[i] >= hash })
Search(keys, hash) == SearchBetween(keys, hash, 0, Len(keys))

----------------------------------------------------------------------------
(* The operations on the ring's fields *)

RECURSIVE AddVNodes_Dedup(_, _, _, _, _)
\* AddVNodes that appends a hash to the keys only when ring does not hold it
AddVNodes_Dedup(rg, ks, server, i, n) ==
    IF i >= n THEN [ring |-> rg, keys |-> ks]
    ELSE LET hash == hashKey(Sprintf(server, i))
         IN  AddVNodes_Dedup(MapSet(rg, hash, server),
                             IF hash \in DOMAIN rg THEN ks ELSE Append(ks, hash),
                             server, i + 1, n)

\* the loop of AddServer from index i on: every hash is set to server in
\* ring and appended to the keys, in the order of the indices
AddVNodes(rg, ks, server, i, n) ==
    LET hashes == [j \in 1..(n - i) |-> hashKey(Sprintf(server, i + j - 1))]
        added  == {hashes[j] : j \in 1..(n - i)}
    IN  [ring |-> [x \in (DOMAIN rg) \cup added |-> IF x \in added THEN server ELSE rg[x]],
         keys |-> ks \o SubSeq(hashes, 1, n - i)]

RECURSIVE RemoveVNodes_KeepRing(_, _, _, _, _)
\* RemoveVNodes without delete(h.ring, hash)
RemoveVNodes_KeepRing(rg, ks, server, i, n) ==
    IF i >= n THEN [ring |-> rg, keys |-> ks, panic |-> FALSE]
    ELSE LET hash == hashKey(Sprintf(server, i))
             idx  == Index(ks, hash)
         IN  IF idx = -1
                THEN [ring |-> rg, keys |-> ks, panic |-> TRUE]
                ELSE RemoveVNodes_KeepRing(rg, DeleteAt(ks, idx), server, i + 1, n)

RECURSIVE RemoveVNodes_SkipFirst(_, _, _, _, _)
\* RemoveVNodes whose loop starts at index 1
RemoveVNodes_SkipFirst(rg, ks, server, i, n) ==
    IF i >= n THEN [ring |-> rg, keys |-> ks, panic |-> FALSE]
    ELSE IF i = 0 THEN RemoveVNodes_SkipFirst(rg, ks, server, 1, n)
    ELSE LET hash == hashKey(Sprintf(server, i))
             idx  == Index(ks, hash)
         IN  IF idx = -1
                THEN [ring |-> MapDelete(rg, hash), keys |-> ks, panic |-> TRUE]
                ELSE RemoveVNodes_SkipFirst(MapDelete(rg, hash), DeleteAt(ks, idx), server, i + 1, n)

RECURSIVE RemoveVNodes_KeepKeys(_, _, _, _, _)
\* RemoveVNodes without the slice assignment to h.serverKeys
RemoveVNodes_KeepKeys(rg, ks, server, i, n) ==
    IF i >= n THEN [ring |-> rg, keys |-> ks, panic |-> FALSE]
    ELSE LET hash == hashKey(Sprintf(server, i))
             idx  == Index(ks, hash)
         IN  IF idx = -1
                THEN [ring |-> MapDelete(rg, hash), keys |-> ks, panic |-> TRUE]
                ELSE RemoveVNodes_KeepKeys(MapDelete(rg, hash), ks, server, i + 1, n)

RECURSIVE RemoveVNodes_AllCopies(_, _, _, _, _)
\* RemoveVNodes that takes every copy of the hash out of the keys
RemoveVNodes_AllCopies(rg, ks, server, i, n) ==
    IF i >= n THEN [ring |-> rg, keys |-> ks, panic |-> FALSE]
    ELSE LET hash == hashKey(Sprintf(server, i))
             idx  == Index(ks, hash)
             Other(x) == x # hash
         IN  IF idx = -1
                THEN [ring |-> MapDelete(rg, hash), keys |-> ks, panic |-> TRUE]
                ELSE RemoveVNodes_AllCopies(MapDelete(rg, hash), SelectSeq(ks, Other),
                                            server, i + 1, n)

RECURSIVE RemoveVNodes(_, _, _, _, _)
\* the loop of RemoveServer from index i on; slicing at idx = -1 panics
RemoveVNodes(rg, ks, server, i, n) ==
    IF i >= n THEN [ring |-> rg, keys |-> ks, panic |-> FALSE]
    ELSE LET hash == hashKey(Sprintf(server, i))
             idx  == Index(ks, hash)
         IN  IF idx = -1
                THEN [ring |-> MapDelete(rg, hash), keys |-> ks, panic |-> TRUE]
                ELSE RemoveVNodes(MapDelete(rg, hash), DeleteAt(ks, idx), server, i + 1, n)

\* Lookup by the hash modulo the number of servers, in the order of their
\* names, with no use of the ring
Lookup_Modulo(sv, rg, ks, key) ==
    IF Cardinality(sv) = 0
       THEN [server |-> EmptyString, err |-> "Empty"]
       ELSE LET names == SortStrings(CHOOSE order \in IterationOrders(sv) : TRUE)
                n     == Cardinality(sv)
                hash  == hashKey(key)
            IN  [server |-> names[(((hash[1] % n) * (Half % n) + hash[2]) % n) + 1],
                 err |-> "nil"]

\* Lookup without the wrap to index 0
Lookup_NoWrap(sv, rg, ks, key) ==
    IF Cardinality(sv) = 0
       THEN [server |-> EmptyString, err |-> "Empty"]
       ELSE LET idx == Search(ks, hashKey(key))
            IN  IF idx >= Len(ks)
                   THEN [server |-> EmptyString, err |-> "panic"]
                   ELSE [server |-> MapGet(rg, ks[idx + 1]), err |-> "nil"]

\* Lookup without the check for an empty ring
Lookup_NoEmptyCheck(sv, rg, ks, key) ==
    LET found == Search(ks, hashKey(key))
        idx == IF found = Len(ks) THEN 0 ELSE found
    IN  IF idx >= Len(ks)
           THEN [server |-> EmptyString, err |-> "panic"]
           ELSE [server |-> MapGet(rg, ks[idx + 1]), err |-> "nil"]

\* the body of GetServer on fields sv, rg, ks: the server and the error
\* returned; err is "panic" when the index expression is out of range
Lookup(sv, rg, ks, key) ==
    IF Cardinality(sv) = 0
       THEN [server |-> EmptyString, err |-> "Empty"]
       ELSE LET hash == hashKey(key)
                found == Search(ks, hash)
                idx == IF found = Len(ks) THEN 0 ELSE found
            IN  IF idx >= Len(ks)
                   THEN [server |-> EmptyString, err |-> "panic"]
                   ELSE [server |-> MapGet(rg, ks[idx + 1]), err |-> "nil"]

\* what GetServer(key) returns in the current state
GetServerResult(key) == Lookup(servers, ring, serverKeys, key)

----------------------------------------------------------------------------
(* State machine *)

\* a call and its results; n is the integer result of Size, list the result
\* of GetServers; keys is the batch of GetDistribution and AnalyzePerformance,
\* dist the distribution they return, count and latency the fields Servers
\* and AvgLatency of PerformanceMetrics (n is its TotalKeys)
Return(op, arg, server, err, n) ==
    [op |-> op, arg |-> arg, server |-> server, err |-> err, n |-> n, list |-> <<>>,
     keys |-> <<>>, dist |-> EmptyMap, count |-> 0, latency |-> 0]

\* no GetServer result yet
NoResult == [server |-> EmptyString, err |-> "none"]

\* the last call is no AddServer that returned nil
NoPrior == [set |-> FALSE, server |-> EmptyString, fields |-> <<{}, EmptyMap, <<>>>>]

\* the goroutines
Procs == 1..NumProcs

\* no call in progress
NoCall == [op |-> "none", arg |-> EmptyString]

\* the zero value of sync.RWMutex: w is the goroutine that holds the writers'
\* mutex rw.w (0 for none); pending tells that readerCount is negative, a
\* writer having announced itself; readers is readerCount without that
\* offset; readerSem and writerSem count the wake-ups not yet consumed
ZeroRWMutex ==
    [w |-> 0, pending |-> FALSE, readers |-> 0, readerWait |-> 0,
     readerSem |-> 0, writerSem |-> 0]

\* the variables of a test that samples keys, when none is running: the loop
\* it is in, the index of the next key, the keys that moved, the server of
\* each key in the first loop (in the order of the keys) and the counts
NoTest == [phase |-> "none", i |-> 0, moved |-> 0, keyToServer |-> <<>>, dist |-> EmptyMap]

\* no goroutine has called yet and no test runs
InitGoroutines ==
    /\ test = NoTest
    /\ pc = [g \in Procs |-> "idle"]
    /\ call = [g \in Procs |-> NoCall]
    /\ iter = [g \in Procs |-> 0]
    /\ got = [g \in Procs |-> NoResult]
    /\ mu = ZeroRWMutex
    /\ snap = <<{}, EmptyMap, <<>>>>
    /\ distCalled = FALSE

\* New that takes a default of one virtual node for virtualNodes <= 0
Init_Default ==
    /\ InitGoroutines
    /\ \E virtualNodes \in 0..MaxVNodes :
          /\ vnodes = IF virtualNodes <= 0 THEN 1 ELSE virtualNodes
          /\ ret = Return("New", EmptyString, EmptyString, "nil", virtualNodes)
    /\ servers = {}
    /\ ring = EmptyMap
    /\ serverKeys = <<>>
    /\ live = {}
    /\ watch \in Keys
    /\ first = NoResult
    /\ repeat = FALSE
    /\ everAdded = FALSE
    /\ onceAdded = {}
    /\ addOrder = <<>>
    /\ prior = NoPrior

\* New(virtualNodes); ret.n is the argument
Init ==
    /\ InitGoroutines
    /\ vnodes \in 0..MaxVNodes
    /\ servers = {}
    /\ ring = EmptyMap
    /\ serverKeys = <<>>
    /\ ret = Return("New", EmptyString, EmptyString, "nil", vnodes)
    /\ live = {}
    /\ watch \in Keys
    /\ first = NoResult
    /\ repeat = FALSE
    /\ everAdded = FALSE
    /\ onceAdded = {}
    /\ addOrder = <<>>
    /\ prior = NoPrior

\* AddServer that inserts the virtual nodes before it checks for a duplicate
AddServer_CheckLast(server) ==
    LET added == AddVNodes(ring, serverKeys, server, 0, vnodes)
        dup == server \in servers
    IN  /\ servers' = servers \cup {server}
        /\ ring' = added.ring
        /\ serverKeys' = SortKeys(added.keys)
        /\ ret' = Return("AddServer", server, EmptyString,
                         IF dup THEN "AlreadyExists" ELSE "nil", 0)
        /\ live' = IF dup THEN live ELSE live \cup {server}
        /\ first' = IF dup THEN first ELSE NoResult
        /\ repeat' = FALSE
        /\ everAdded' = (everAdded \/ ~dup)
        /\ UNCHANGED <<vnodes, watch>>

\* AddServer without the check for a duplicate
AddServer_NoCheck(server) ==
    LET added == AddVNodes(ring, serverKeys, server, 0, vnodes)
    IN  /\ servers' = servers \cup {server}
        /\ ring' = added.ring
        /\ serverKeys' = SortKeys(added.keys)
        /\ ret' = Return("AddServer", server, EmptyString, "nil", 0)
        /\ live' = live \cup {server}
        /\ first' = NoResult
        /\ repeat' = FALSE
        /\ everAdded' = TRUE
        /\ UNCHANGED <<vnodes, watch>>

\* AddServer without the slices.Sort after the loop
AddServer_NoSort(server) ==
    IF server \in servers
       THEN /\ ret' = Return("AddServer", server, EmptyString, "AlreadyExists", 0)
            /\ repeat' = FALSE
            /\ UNCHANGED <<vnodes, servers, ring, serverKeys, live, watch, first, everAdded>>
       ELSE LET added == AddVNodes(ring, serverKeys, server, 0, vnodes)
            IN  /\ servers' = servers \cup {server}
                /\ ring' = added.ring
                /\ serverKeys' = added.keys
                /\ ret' = Return("AddServer", server, EmptyString, "nil", 0)
                /\ live' = live \cup {server}
                /\ first' = NoResult
                /\ repeat' = FALSE
                /\ everAdded' = TRUE
                /\ UNCHANGED <<vnodes, watch>>

\* AddServer that inserts the virtual nodes before it checks for a duplicate
AddServer_LateCheck(server) ==
    LET added == AddVNodes(ring, serverKeys, server, 0, vnodes)
    IN  /\ servers' = servers \cup {server}
        /\ ring' = added.ring
        /\ serverKeys' = SortKeys(added.keys)
        /\ ret' = Return("AddServer", server, EmptyString,
                         IF server \in servers THEN "AlreadyExists" ELSE "nil", 0)
        /\ live' = live \cup {server}
        /\ first' = IF server \in servers THEN first ELSE NoResult
        /\ repeat' = FALSE
        /\ everAdded' = TRUE
        /\ UNCHANGED <<vnodes, watch>>

AddServer(server) ==
    IF server \in servers
       THEN /\ ret' = Return("AddServer", server, EmptyString, "AlreadyExists", 0)
            /\ repeat' = FALSE
            /\ UNCHANGED <<vnodes, servers, ring, serverKeys, live, watch, first, everAdded>>
       ELSE LET added == AddVNodes(ring, serverKeys, server, 0, vnodes)
            IN  /\ servers' = servers \cup {server}
                /\ ring' = added.ring
                /\ serverKeys' = SortKeys(added.keys)
                /\ ret' = Return("AddServer", server, EmptyString, "nil", 0)
                /\ live' = live \cup {server}
                /\ first' = NoResult
                /\ repeat' = FALSE
                /\ everAdded' = TRUE
                /\ UNCHANGED <<vnodes, watch>>

\* RemoveServer without the check for a missing server
RemoveServer_NoCheck(server) ==
    LET removed == RemoveVNodes(ring, serverKeys, server, 0, vnodes)
    IN  /\ servers' = servers \ {server}
        /\ ring' = removed.ring
        /\ serverKeys' = removed.keys
        /\ ret' = Return("RemoveServer", server, EmptyString,
                         IF removed.panic THEN "panic" ELSE "nil", 0)
        /\ live' = IF removed.panic THEN live ELSE live \ {server}
        /\ first' = IF removed.panic THEN first ELSE NoResult
        /\ repeat' = FALSE
        /\ UNCHANGED <<vnodes, watch, everAdded>>

\* RemoveServer without delete(h.servers, server)
RemoveServer_KeepMember(server) ==
    IF server \notin servers
       THEN /\ ret' = Return("RemoveServer", server, EmptyString, "NotFound", 0)
            /\ repeat' = FALSE
            /\ UNCHANGED <<vnodes, servers, ring, serverKeys, live, watch, first, everAdded>>
       ELSE LET removed == RemoveVNodes(ring, serverKeys, server, 0, vnodes)
            IN  /\ servers' = servers
                /\ ring' = removed.ring
                /\ serverKeys' = removed.keys
                /\ ret' = Return("RemoveServer", server, EmptyString,
                                 IF removed.panic THEN "panic" ELSE "nil", 0)
                /\ live' = IF removed.panic THEN live ELSE live \ {server}
                /\ first' = IF removed.panic THEN first ELSE NoResult
                /\ repeat' = FALSE
                /\ UNCHANGED <<vnodes, watch, everAdded>>

RemoveServer(server) ==
    IF server \notin servers
       THEN /\ ret' = Return("RemoveServer", server, EmptyString, "NotFound", 0)
            /\ repeat' = FALSE
            /\ UNCHANGED <<vnodes, servers, ring, serverKeys, live, watch, first, everAdded>>
       ELSE LET removed == RemoveVNodes(ring, serverKeys, server, 0, vnodes)
            IN  /\ servers' = servers \ {server}
                /\ ring' = removed.ring
                /\ serverKeys' = removed.keys
                /\ ret' = Return("RemoveServer", server, EmptyString,
                                 IF removed.panic THEN "panic" ELSE "nil", 0)
                /\ live' = IF removed.panic THEN live ELSE live \ {server}
                /\ first' = IF removed.panic THEN first ELSE NoResult
                /\ repeat' = FALSE
                /\ UNCHANGED <<vnodes, watch, everAdded>>

GetServer(key) ==
    LET res == GetServerResult(key)
    IN  /\ ret' = Return("GetServer", key, res.server, res.err, 0)
        /\ first' = IF key = watch /\ first = NoResult THEN res ELSE first
        /\ repeat' = (key = watch /\ first # NoResult)
        /\ UNCHANGED <<vnodes, servers, ring, serverKeys, live, watch, everAdded>>

\* Size that counts the virtual nodes
Size_VNodes ==
    /\ ret' = Return("Size", EmptyString, EmptyString, "nil", Len(serverKeys))
    /\ repeat' = FALSE
    /\ UNCHANGED <<vnodes, servers, ring, serverKeys, live, watch, first, everAdded>>

Size ==
    /\ ret' = Return("Size", EmptyString, EmptyString, "nil", Cardinality(servers))
    /\ repeat' = FALSE
    /\ UNCHANGED <<vnodes, servers, ring, serverKeys, live, watch, first, everAdded>>

\* GetServers without slices.Sort
GetServers_NoSort ==
    \E order \in IterationOrders(servers) :
        /\ ret' = [Return("GetServers", EmptyString, EmptyString, "nil", 0)
                      EXCEPT !.list = order]
        /\ repeat' = FALSE
        /\ UNCHANGED <<vnodes, servers, ring, serverKeys, live, watch, first, everAdded>>

GetServers ==
    \E order \in IterationOrders(servers) :
        /\ ret' = [Return("GetServers", EmptyString, EmptyString, "nil", 0)
                      EXCEPT !.list = SortStrings(order)]
        /\ repeat' = FALSE
        /\ UNCHANGED <<vnodes, servers, ring, serverKeys, live, watch, first, everAdded>>

Next ==
    \/ (\E server \in ServerNames : AddServer(server)) /\ UNCHANGED <<onceAdded, goroutines, test, addOrder, prior>>
    \/ (\E server \in ServerNames : RemoveServer(server)) /\ UNCHANGED <<onceAdded, goroutines, test, addOrder, prior>>
    \/ (\E key \in Keys : GetServer(key)) /\ UNCHANGED <<onceAdded, goroutines, test, addOrder, prior>>
    \/ GetServers /\ UNCHANGED <<onceAdded, goroutines, test, addOrder, prior>>
    \/ Size /\ UNCHANGED <<onceAdded, goroutines, test, addOrder, prior>>

Spec == Init /\ [][Next]_vars

\* the calls, with the history of the servers added
NextHist ==
    \/ \E server \in ServerNames :
          /\ AddServer(server)
          /\ onceAdded' = IF ret'.err = "nil" THEN onceAdded \cup {server} ELSE onceAdded
          /\ UNCHANGED <<goroutines, test, addOrder, prior>>
    \/ (\E server \in ServerNames : RemoveServer(server)) /\ UNCHANGED <<onceAdded, goroutines, test, addOrder, prior>>
    \/ (\E key \in Keys : GetServer(key)) /\ UNCHANGED <<onceAdded, goroutines, test, addOrder, prior>>
    \/ GetServers /\ UNCHANGED <<onceAdded, goroutines, test, addOrder, prior>>
    \/ Size /\ UNCHANGED <<onceAdded, goroutines, test, addOrder, prior>>

\* the histories of lookups are followed for one key only
InitHist == Init /\ watch = KeyLow

SpecHist == InitHist /\ [][NextHist]_vars

\* the calls, with the history of the order in which the members were added
\* and of what the last AddServer found
NextOrder ==
    \/ \E server \in ServerNames :
          /\ AddServer(server)
          /\ addOrder' = IF ret'.err = "nil" THEN Append(addOrder, server) ELSE addOrder
          /\ prior' = IF ret'.err = "nil"
                         THEN [set |-> TRUE, server |-> server,
                               fields |-> <<servers, ring, serverKeys>>]
                         ELSE NoPrior
          /\ UNCHANGED <<onceAdded, goroutines, test>>
    \/ \E server \in ServerNames :
          /\ RemoveServer(server)
          /\ addOrder' = IF ret'.err = "nil"
                            THEN SelectSeq(addOrder, LAMBDA s : s # server)
                            ELSE addOrder
          /\ prior' = NoPrior
          /\ UNCHANGED <<onceAdded, goroutines, test>>
    \/ (\E key \in Keys : GetServer(key)) /\ prior' = NoPrior
           /\ UNCHANGED <<onceAdded, goroutines, test, addOrder>>
    \/ GetServers /\ prior' = NoPrior /\ UNCHANGED <<onceAdded, goroutines, test, addOrder>>
    \/ Size /\ prior' = NoPrior /\ UNCHANGED <<onceAdded, goroutines, test, addOrder>>

SpecOrder == InitHist /\ [][NextOrder]_vars

----------------------------------------------------------------------------
(* The reporting methods: GetDistribution and AnalyzePerformance *)

\* the batches of keys: the empty one, one with a key twice, ones with
\* keys that different servers own
Batches ==
    {<<>>, <<KeyLow>>, <<KeyLow, KeyLow>>, <<KeyLow, KeyMid2>>, <<KeyMid2, KeyMid3, KeyMid2>>}

\* the values time.Since(start) takes, in nanoseconds
Elapsed == {0, 5}

\* MapInc that sets the count to 1
MapInc_Set(m, k) == [x \in (DOMAIN m) \cup {k} |-> IF x = k THEN 1 ELSE m[x]]

\* dist[server]++ on a map[string]int
MapInc(m, k) ==
    [x \in (DOMAIN m) \cup {k} |->
        IF x = k THEN (IF k \in DOMAIN m THEN m[k] ELSE 0) + 1 ELSE m[x]]

RECURSIVE Distribute(_, _, _, _, _)
\* the loop of GetDistribution over the keys: a key whose lookup fails is
\* skipped, a panic of GetServer goes on to the caller
Distribute(dist, keys, sv, rg, ks) ==
    IF keys = <<>> THEN [dist |-> dist, panic |-> FALSE]
    ELSE LET res == Lookup(sv, rg, ks, Head(keys))
         IN  IF res.err = "panic" THEN [dist |-> dist, panic |-> TRUE]
             ELSE Distribute(IF res.err = "nil" THEN MapInc(dist, res.server) ELSE dist,
                             Tail(keys), sv, rg, ks)

\* what GetDistribution(keys) returns in the current state
GetDistributionResult(keys) ==
    Distribute([s \in servers |-> 0], keys, servers, ring, serverKeys)

\* GetDistribution
GetDistribution(keys) ==
    LET d == GetDistributionResult(keys)
    IN  /\ ret' = [Return("GetDistribution", EmptyString, EmptyString,
                          IF d.panic THEN "panic" ELSE "nil", 0)
                      EXCEPT !.keys = keys, !.dist = IF d.panic THEN EmptyMap ELSE d.dist]
        /\ repeat' = FALSE
        /\ UNCHANGED <<vnodes, servers, ring, serverKeys, live, watch, first, everAdded>>

\* AnalyzePerformance; elapsed is time.Since(start). The integer division by
\* len(keys) panics for an empty batch. DistributionCV, a float64 computed
\* from Distribution alone, is left out of the result.
AnalyzePerformance(keys, elapsed) ==
    LET d == GetDistributionResult(keys)
    IN  /\ ret' = IF d.panic \/ Len(keys) = 0
                     THEN [Return("AnalyzePerformance", EmptyString, EmptyString, "panic", 0)
                              EXCEPT !.keys = keys]
                     ELSE [Return("AnalyzePerformance", EmptyString, EmptyString, "nil", Len(keys))
                              EXCEPT !.keys = keys,
                                     !.dist = d.dist,
                                     !.count = Cardinality(DOMAIN d.dist),
                                     !.latency = elapsed \div Len(keys)]
        /\ repeat' = FALSE
        /\ UNCHANGED <<vnodes, servers, ring, serverKeys, live, watch, first, everAdded>>

\* New(virtualNodes), with the watched key fixed
InitAll == Init /\ watch = KeyLow

NextAll ==
    \/ Next
    \/ (\E keys \in Batches : GetDistribution(keys)) /\ UNCHANGED <<onceAdded, goroutines, test, addOrder, prior>>
    \/ (\E keys \in Batches : \E elapsed \in Elapsed : AnalyzePerformance(keys, elapsed))
           /\ UNCHANGED <<onceAdded, goroutines, test, addOrder, prior>>

SpecAll == InitAll /\ [][NextAll]_vars

----------------------------------------------------------------------------
(* The tests that sample keys: TestConsistency, then the distribution of
   TestDistributionStandardDeviation on the ring it ends with *)

\* New(150)
SampleVNodes == 150
\* the servers added before the keys are mapped: server1, server2, server3
FirstServers == 3
\* the keys key-0..key-999 whose servers are compared
ChurnKeys == 1000
\* the keys key-0..key-9999 whose distribution is taken
BalanceKeys == 10000

\* the iterations of a loop over the keys that one step runs
KeysPerStep == 50

\* dist[s] read: 0 when s is absent
MapGetCount(dist, s) == IF s \in DOMAIN dist THEN dist[s] ELSE 0

\* fmt.Sprintf("key-%d", i)
SampleKey(i) == <<107, 101, 121, 45>> \o Itoa(i)

\* "server1", "server2", ...
SampleServer(j) == <<115, 101, 114, 118, 101, 114>> \o Itoa(j)

\* ring := New(150)
InitSample ==
    /\ pc = [g \in Procs |-> "idle"]
    /\ call = [g \in Procs |-> NoCall]
    /\ iter = [g \in Procs |-> 0]
    /\ got = [g \in Procs |-> NoResult]
    /\ mu = ZeroRWMutex
    /\ snap = <<{}, EmptyMap, <<>>>>
    /\ distCalled = FALSE
    /\ vnodes = SampleVNodes
    /\ servers = {}
    /\ ring = EmptyMap
    /\ serverKeys = <<>>
    /\ ret = Return("New", EmptyString, EmptyString, "nil", vnodes)
    /\ live = {}
    /\ watch = KeyLow
    /\ first = NoResult
    /\ repeat = FALSE
    /\ everAdded = FALSE
    /\ onceAdded = {}
    /\ addOrder = <<>>
    /\ prior = NoPrior
    /\ test = [NoTest EXCEPT !.phase = "add"]

\* ring.AddServer("server1") .. ("server3") before the keys are mapped,
\* ring.AddServer("server4") after; the counts start at 0 for every member
SampleAddServer ==
    /\ test.phase \in {"add", "grow"}
    /\ AddServer(SampleServer(Cardinality(servers) + 1))
    /\ test' = IF Cardinality(servers') < FirstServers
                  THEN test
                  ELSE [test EXCEPT !.phase = IF test.phase = "add" THEN "map" ELSE "check",
                                    !.i = 0,
                                    !.dist = [s \in servers' |-> 0]]
    /\ UNCHANGED <<onceAdded, goroutines, addOrder, prior>>

\* the test's variables after the iterations test.i .. last-1 of a loop over
\* the keys, found[k] being what GetServer returned in the k-th of them: the
\* first loop keeps the servers in keyToServer, the second counts the keys
\* that moved, and the distribution counts every key whose lookup succeeds
AfterLookups(found, last, limit) ==
    LET m  == last - test.i
        ok == {k \in 1..m : found[k].err = "nil"}
    IN  [test EXCEPT
           !.i = last,
           !.keyToServer = IF test.phase = "map"
                              THEN @ \o [k \in 1..m |-> found[k].server]
                              ELSE @,
           !.moved = IF test.phase = "check"
                        THEN @ + Cardinality({k \in 1..m :
                                    /\ test.i + k <= ChurnKeys
                                    /\ found[k].server # test.keyToServer[test.i + k]})
                        ELSE @,
           !.dist = [s \in (DOMAIN test.dist) \cup {found[k].server : k \in ok} |->
                        MapGetCount(test.dist, s)
                           + Cardinality({k \in ok : found[k].server = s})],
           !.phase = IF last < limit THEN @
                     ELSE IF test.phase = "map" THEN "grow" ELSE "done"]

\* the next KeysPerStep iterations of a loop over the keys, fewer at its end,
\* each with its ring.GetServer(key)
SampleGetServer ==
    /\ test.phase \in {"map", "check"}
    /\ LET limit == IF test.phase = "map" THEN ChurnKeys ELSE BalanceKeys
           last  == IF test.i + KeysPerStep < limit THEN test.i + KeysPerStep ELSE limit
       IN  /\ GetServer(SampleKey(last - 1))
           /\ test' = AfterLookups(SubSeq([k \in 1..(last - test.i) |->
                                              GetServerResult(SampleKey(test.i + k - 1))],
                                          1, last - test.i),
                                   last, limit)
    /\ UNCHANGED <<onceAdded, goroutines, addOrder, prior>>

NextSample ==
    \/ SampleAddServer
    \/ SampleGetServer

SpecSample == InitSample /\ [][NextSample]_vars

----------------------------------------------------------------------------
(* Concurrent callers: each goroutine runs one call at a time, one step per
   lock operation, per read and per loop iteration *)

\* the servers and the keys the goroutines use, and the batch of
\* GetDistribution
ConcServers == {SrvA, SrvE}
ConcKeys == {KeyLow, KeyMid2}
DistKeys == <<KeyLow, KeyMid2>>

\* a panic raised under the deferred unlock
Panic == [server |-> EmptyString, err |-> "panic"]

\* the fields of the ring
Fields == <<servers, ring, serverKeys>>

\* what the sequential history variables do in SpecConc
Sequential == <<vnodes, ret, live, watch, first, repeat, everAdded, onceAdded, test,
                addOrder, prior>>

\* a goroutine enters a call: the first thing each method does is to take
\* the lock
Begin(g, op, arg, lock) ==
    /\ pc[g] = "idle"
    /\ pc' = [pc EXCEPT ![g] = lock]
    /\ call' = [call EXCEPT ![g] = [op |-> op, arg |-> arg]]
    /\ iter' = [iter EXCEPT ![g] = 0]
    /\ got' = [got EXCEPT ![g] = NoResult]
    /\ distCalled' = (distCalled \/ op = "GetDistribution")
    /\ UNCHANGED <<Fields, Sequential, mu, snap>>

\* where a writer goes once it holds the lock
WriteStart(g) == IF call[g].op = "AddServer" THEN "AddCheck" ELSE "RemoveCheck"

\* a write lock that does not wait for the active readers
MuLock_NoWait(g) ==
    /\ pc[g] = "Lock"
    /\ mu.w = 0
    /\ mu' = [mu EXCEPT !.w = g, !.pending = TRUE]
    /\ pc' = [pc EXCEPT ![g] = WriteStart(g)]
    /\ UNCHANGED <<Fields, Sequential, call, iter, got, snap, distCalled>>

\* h.mu.Lock(): take the writers' mutex rw.w, announce the writer to the
\* readers and count the active readers to wait for
MuLock(g) ==
    /\ pc[g] = "Lock"
    /\ mu.w = 0
    /\ LET wait == mu.readerWait + mu.readers
       IN  /\ mu' = [mu EXCEPT !.w = g, !.pending = TRUE, !.readerWait = wait]
           /\ pc' = [pc EXCEPT ![g] = IF mu.readers # 0 /\ wait # 0
                                         THEN "LockWait" ELSE WriteStart(g)]
    /\ UNCHANGED <<Fields, Sequential, call, iter, got, snap, distCalled>>

\* h.mu.Lock(), blocked on writerSem until the last active reader leaves
MuLockWait(g) ==
    /\ pc[g] = "LockWait"
    /\ mu.writerSem > 0
    /\ mu' = [mu EXCEPT !.writerSem = @ - 1]
    /\ pc' = [pc EXCEPT ![g] = WriteStart(g)]
    /\ UNCHANGED <<Fields, Sequential, call, iter, got, snap, distCalled>>

\* where a call goes when it ends: a panic under a deferred unlock goes on
\* after the unlock
AfterUnlock(g) == IF got[g].err = "panic" THEN "panicked" ELSE "idle"

\* the locals of goroutine g when its call ends
Finish(g) ==
    /\ pc' = [pc EXCEPT ![g] = AfterUnlock(g)]
    /\ call' = [call EXCEPT ![g] = IF got[g].err = "panic" THEN @ ELSE NoCall]
    /\ got' = [got EXCEPT ![g] = IF got[g].err = "panic" THEN @ ELSE NoResult]
    /\ iter' = [iter EXCEPT ![g] = 0]

\* defer h.mu.Unlock(): wake every blocked reader, free rw.w
MuUnlock(g) ==
    /\ pc[g] = "Unlock"
    /\ mu' = [mu EXCEPT !.pending = FALSE, !.readerSem = @ + mu.readers, !.w = 0]
    /\ snap' = Fields
    /\ Finish(g)
    /\ UNCHANGED <<Fields, Sequential, distCalled>>

\* a result without a server
Plain(err) == [server |-> EmptyString, err |-> err]

\* AddServerCheck that returns AlreadyExists without unlocking
AddServerCheck_NoUnlock(g) ==
    /\ pc[g] = "AddCheck"
    /\ IF call[g].arg \in servers
          THEN /\ got' = [got EXCEPT ![g] = NoResult]
               /\ pc' = [pc EXCEPT ![g] = "idle"]
               /\ call' = [call EXCEPT ![g] = NoCall]
               /\ UNCHANGED servers
          ELSE /\ servers' = servers \cup {call[g].arg}
               /\ pc' = [pc EXCEPT ![g] = "AddLoop"]
               /\ UNCHANGED <<got, call>>
    /\ UNCHANGED <<ring, serverKeys, Sequential, iter, mu, snap, distCalled>>

\* AddServer under the lock: the check for a duplicate, then h.servers[server] = true
AddServerCheck(g) ==
    /\ pc[g] = "AddCheck"
    /\ IF call[g].arg \in servers
          THEN /\ got' = [got EXCEPT ![g] = Plain("AlreadyExists")]
               /\ pc' = [pc EXCEPT ![g] = "Unlock"]
               /\ UNCHANGED servers
          ELSE /\ servers' = servers \cup {call[g].arg}
               /\ pc' = [pc EXCEPT ![g] = "AddLoop"]
               /\ UNCHANGED got
    /\ UNCHANGED <<ring, serverKeys, Sequential, call, iter, mu, snap, distCalled>>

\* AddServer under the lock: one iteration of the loop over the virtual nodes
AddServerLoop(g) ==
    /\ pc[g] = "AddLoop"
    /\ IF iter[g] < vnodes
          THEN LET added == AddVNodes(ring, serverKeys, call[g].arg, iter[g], iter[g] + 1)
               IN  /\ ring' = added.ring
                   /\ serverKeys' = added.keys
                   /\ iter' = [iter EXCEPT ![g] = @ + 1]
                   /\ UNCHANGED pc
          ELSE /\ pc' = [pc EXCEPT ![g] = "AddSort"]
               /\ UNCHANGED <<ring, serverKeys, iter>>
    /\ UNCHANGED <<servers, Sequential, call, got, mu, snap, distCalled>>

\* AddServer under the lock: slices.Sort(h.serverKeys), return nil
AddServerSort(g) ==
    /\ pc[g] = "AddSort"
    /\ serverKeys' = SortKeys(serverKeys)
    /\ got' = [got EXCEPT ![g] = Plain("nil")]
    /\ pc' = [pc EXCEPT ![g] = "Unlock"]
    /\ UNCHANGED <<servers, ring, Sequential, call, iter, mu, snap, distCalled>>

\* RemoveServer under the lock: the check for a missing server, then
\* delete(h.servers, server)
RemoveServerCheck(g) ==
    /\ pc[g] = "RemoveCheck"
    /\ IF call[g].arg \notin servers
          THEN /\ got' = [got EXCEPT ![g] = Plain("NotFound")]
               /\ pc' = [pc EXCEPT ![g] = "Unlock"]
               /\ UNCHANGED servers
          ELSE /\ servers' = servers \ {call[g].arg}
               /\ pc' = [pc EXCEPT ![g] = "RemoveLoop"]
               /\ UNCHANGED got
    /\ UNCHANGED <<ring, serverKeys, Sequential, call, iter, mu, snap, distCalled>>

\* RemoveServer under the lock: one iteration of the loop over the virtual
\* nodes, or return nil after the last
RemoveServerLoop(g) ==
    /\ pc[g] = "RemoveLoop"
    /\ IF iter[g] < vnodes
          THEN LET removed == RemoveVNodes(ring, serverKeys, call[g].arg, iter[g], iter[g] + 1)
               IN  /\ ring' = removed.ring
                   /\ serverKeys' = removed.keys
                   /\ iter' = [iter EXCEPT ![g] = @ + 1]
                   /\ got' = IF removed.panic THEN [got EXCEPT ![g] = Panic] ELSE got
                   /\ pc' = IF removed.panic THEN [pc EXCEPT ![g] = "Unlock"] ELSE pc
          ELSE /\ got' = [got EXCEPT ![g] = Plain("nil")]
               /\ pc' = [pc EXCEPT ![g] = "Unlock"]
               /\ UNCHANGED <<ring, serverKeys, iter>>
    /\ UNCHANGED <<servers, Sequential, call, mu, snap, distCalled>>

\* the read locks: the one each reading method takes, and the one GetServer
\* takes when GetDistribution calls it
Outer == {"RLock", "RLockWait", "RUnlock"}

\* where a reader goes once it holds the read lock
ReadStart(g) ==
    IF pc[g] \notin Outer THEN "ReadIn"
    ELSE IF call[g].op = "GetDistribution" THEN "DistLoop" ELSE "Read"

\* a read lock that does not wait for a writer: the reader goes on at once
MuRLock_NoWait(g) ==
    /\ pc[g] \in {"RLock", "RLockIn"}
    /\ mu' = [mu EXCEPT !.readers = @ + 1]
    /\ pc' = [pc EXCEPT ![g] = ReadStart(g)]
    /\ UNCHANGED <<Fields, Sequential, call, iter, got, snap, distCalled>>

\* h.mu.RLock(): count the reader; a pending writer makes it wait
MuRLock(g) ==
    /\ pc[g] \in {"RLock", "RLockIn"}
    /\ mu' = [mu EXCEPT !.readers = @ + 1]
    /\ pc' = [pc EXCEPT ![g] = IF mu.pending
                                  THEN (IF pc[g] = "RLock" THEN "RLockWait" ELSE "RLockWaitIn")
                                  ELSE ReadStart(g)]
    /\ UNCHANGED <<Fields, Sequential, call, iter, got, snap, distCalled>>

\* h.mu.RLock(), blocked on readerSem until the writer unlocks
MuRLockWait(g) ==
    /\ pc[g] \in {"RLockWait", "RLockWaitIn"}
    /\ mu.readerSem > 0
    /\ mu' = [mu EXCEPT !.readerSem = @ - 1]
    /\ pc' = [pc EXCEPT ![g] = ReadStart(g)]
    /\ UNCHANGED <<Fields, Sequential, call, iter, got, snap, distCalled>>

\* defer h.mu.RUnlock(): the last reader a pending writer waits for wakes it
MuRUnlock(g) ==
    /\ pc[g] \in {"RUnlock", "RUnlockIn"}
    /\ LET wait == IF mu.pending THEN mu.readerWait - 1 ELSE mu.readerWait
       IN  mu' = [mu EXCEPT !.readers = @ - 1,
                            !.readerWait = wait,
                            !.writerSem = IF mu.pending /\ wait = 0 THEN @ + 1 ELSE @]
    /\ IF pc[g] = "RUnlock"
          THEN Finish(g)
          ELSE /\ pc' = [pc EXCEPT ![g] = IF got[g].err = "panic" THEN "RUnlock" ELSE "DistLoop"]
               /\ iter' = [iter EXCEPT ![g] = @ + 1]
               /\ UNCHANGED <<call, got>>
    /\ UNCHANGED <<Fields, Sequential, snap, distCalled>>

\* the key a GetServer call of goroutine g looks up
KeyOf(g) == IF pc[g] = "ReadIn" THEN DistKeys[iter[g] + 1] ELSE call[g].arg

\* GetServerRead that keeps its result in a variable the goroutines share
GetServerRead_Shared(g) ==
    /\ \/ pc[g] = "Read" /\ call[g].op = "GetServer"
       \/ pc[g] = "ReadIn"
    /\ got' = [h \in Procs |->
                  IF h = g \/ pc[h] = "RUnlock"
                     THEN Lookup(servers, ring, serverKeys, KeyOf(g))
                     ELSE got[h]]
    /\ pc' = [pc EXCEPT ![g] = IF pc[g] = "Read" THEN "RUnlock" ELSE "RUnlockIn"]
    /\ UNCHANGED <<Fields, Sequential, call, iter, mu, snap, distCalled>>

\* GetServer under the read lock
GetServerRead(g) ==
    /\ \/ pc[g] = "Read" /\ call[g].op = "GetServer"
       \/ pc[g] = "ReadIn"
    /\ got' = [got EXCEPT ![g] = Lookup(servers, ring, serverKeys, KeyOf(g))]
    /\ pc' = [pc EXCEPT ![g] = IF pc[g] = "Read" THEN "RUnlock" ELSE "RUnlockIn"]
    /\ UNCHANGED <<Fields, Sequential, call, iter, mu, snap, distCalled>>

\* GetServers under the read lock
GetServersRead(g) ==
    /\ pc[g] = "Read" /\ call[g].op = "GetServers"
    /\ got' = [got EXCEPT ![g] = Plain("nil")]
    /\ pc' = [pc EXCEPT ![g] = "RUnlock"]
    /\ UNCHANGED <<Fields, Sequential, call, iter, mu, snap, distCalled>>

\* Size under the read lock
SizeRead(g) ==
    /\ pc[g] = "Read" /\ call[g].op = "Size"
    /\ got' = [got EXCEPT ![g] = Plain("nil")]
    /\ pc' = [pc EXCEPT ![g] = "RUnlock"]
    /\ UNCHANGED <<Fields, Sequential, call, iter, mu, snap, distCalled>>

\* GetDistribution under its read lock: the loop over the keys, each
\* iteration a call of h.GetServer
GetDistributionLoop(g) ==
    /\ pc[g] = "DistLoop"
    /\ IF iter[g] < Len(DistKeys)
          THEN /\ pc' = [pc EXCEPT ![g] = "RLockIn"]
               /\ UNCHANGED got
          ELSE /\ pc' = [pc EXCEPT ![g] = "RUnlock"]
               /\ got' = [got EXCEPT ![g] = Plain("nil")]
    /\ UNCHANGED <<Fields, Sequential, call, iter, mu, snap, distCalled>>

\* New(virtualNodes), then the goroutines start
InitConc ==
    /\ InitGoroutines
    /\ vnodes \in 1..MaxVNodes
    /\ servers = {}
    /\ ring = EmptyMap
    /\ serverKeys = <<>>
    /\ ret = Return("New", EmptyString, EmptyString, "nil", vnodes)
    /\ live = {}
    /\ watch = KeyLow
    /\ first = NoResult
    /\ repeat = FALSE
    /\ everAdded = FALSE
    /\ onceAdded = {}
    /\ addOrder = <<>>
    /\ prior = NoPrior

NextConc ==
    \E g \in Procs :
        \/ \E server \in ConcServers : Begin(g, "AddServer", server, "Lock")
        \/ \E server \in ConcServers : Begin(g, "RemoveServer", server, "Lock")
        \/ \E key \in ConcKeys : Begin(g, "GetServer", key, "RLock")
        \/ Begin(g, "GetServers", EmptyString, "RLock")
        \/ Begin(g, "Size", EmptyString, "RLock")
        \/ Begin(g, "GetDistribution", EmptyString, "RLock")
        \/ MuLock(g)
        \/ MuLockWait(g)
        \/ AddServerCheck(g)
        \/ AddServerLoop(g)
        \/ AddServerSort(g)
        \/ RemoveServerCheck(g)
        \/ RemoveServerLoop(g)
        \/ MuUnlock(g)
        \/ MuRLock(g)
        \/ MuRLockWait(g)
        \/ GetServerRead(g)
        \/ GetServersRead(g)
        \/ SizeRead(g)
        \/ GetDistributionLoop(g)
        \/ MuRUnlock(g)

SpecConc == InitConc /\ [][NextConc]_vars

----------------------------------------------------------------------------
(* Vocabulary of the properties *)

\* the last call is GetServer
IsLookup == ret.op = "GetServer"

\* the elements of serverKeys
Positions == {serverKeys[i] : i \in 1..Len(serverKeys)}

\* the elements of serverKeys that are >= hash
AtOrAfter(hash) == {p \in Positions : U32Geq(p, hash)}

\* the smallest element of a non-empty set of positions
Smallest(ps) == CHOOSE p \in ps : \A q \in ps : U32Geq(q, p)

\* the last call returned (server, err)
Returned(server, err) == ret.server = server /\ ret.err = err

----------------------------------------------------------------------------
(* C1..C10 *)

\* C1: on a ring with at least one member, GetServer(key) returns what ring
\* holds for the smallest element of serverKeys that is >= hashKey(key),
\* whenever there is such an element.
C1_SmallestAtOrAfter ==
    (IsLookup /\ servers # {} /\ AtOrAfter(hashKey(ret.arg)) # {})
        => Returned(MapGet(ring, Smallest(AtOrAfter(hashKey(ret.arg)))), "nil")

\* a lookup that the search settles strictly inside serverKeys, on a key
\* whose hash is not a position, and that returns a member
C1_Witness ==
    /\ IsLookup /\ ret.err = "nil" /\ ret.server \in servers
    /\ AtOrAfter(hashKey(ret.arg)) # {}
    /\ AtOrAfter(hashKey(ret.arg)) # Positions
    /\ hashKey(ret.arg) \notin Positions

\* C2: with vnodes >= 1 and at least one member, a key whose hash is above
\* every element of serverKeys gets what ring holds for serverKeys[0], which
\* is the smallest position; the call returns no error.
C2_Wraparound ==
    (IsLookup /\ vnodes >= 1 /\ servers # {} /\ AtOrAfter(hashKey(ret.arg)) = {})
        => /\ Len(serverKeys) >= 1
           /\ serverKeys[1] = Smallest(Positions)
           /\ Returned(MapGet(ring, serverKeys[1]), "nil")

\* a lookup that wrapped around on a ring with several distinct positions
\* and returned a member
C2_Witness ==
    /\ IsLookup /\ vnodes >= 1 /\ servers # {}
    /\ AtOrAfter(hashKey(ret.arg)) = {}
    /\ Cardinality(Positions) >= 2
    /\ ret.err = "nil" /\ ret.server \in servers

\* C3: a GetServer(k) call returns what the first GetServer(k) call since
\* the last AddServer or RemoveServer that returned nil has returned, whatever
\* calls (failed mutations, other readers) were made in between.
C3_Deterministic ==
    (IsLookup /\ ret.arg = watch) => first = [server |-> ret.server, err |-> ret.err]

\* a repeated lookup of the same key on a ring with two members
C3_Witness ==
    /\ IsLookup /\ repeat /\ ret.err = "nil" /\ Cardinality(servers) >= 2

\* C4: AddServer(name) with name already a member returns AlreadyExists and
\* leaves servers, ring and serverKeys as they were.
C4_DuplicateRejected ==
    [][(ret'.op = "AddServer" /\ ret'.arg \in servers)
          => /\ ret'.err = "AlreadyExists"
             /\ UNCHANGED <<servers, ring, serverKeys>>
             /\ Cardinality(servers') = Cardinality(servers)]_vars

\* a rejected AddServer on a ring that holds virtual nodes
C4_Witness ==
    /\ ret.op = "AddServer" /\ ret.err = "AlreadyExists"
    /\ ret.arg \in servers /\ Len(serverKeys) >= 1

\* C5: RemoveServer(name) with name not a member returns NotFound and leaves
\* servers, ring and serverKeys as they were.
C5_MissingRejected ==
    [][(ret'.op = "RemoveServer" /\ ret'.arg \notin servers)
          => /\ ret'.err = "NotFound"
             /\ UNCHANGED <<servers, ring, serverKeys>>]_vars

\* a rejected RemoveServer on a ring that has had a member and holds others
C5_Witness ==
    /\ ret.op = "RemoveServer" /\ ret.err = "NotFound"
    /\ ret.arg \notin servers /\ everAdded /\ Len(serverKeys) >= 1

\* C6: when the ring has no members, by its servers field or by the history
\* of the calls, GetServer returns the Empty error.
C6_EmptyRingFails ==
    (IsLookup /\ (servers = {} \/ live = {})) => Returned(EmptyString, "Empty")

\* a lookup on a ring whose servers have all been removed again
C6_Witness ==
    /\ IsLookup /\ everAdded /\ live = {} /\ vnodes >= 1 /\ ret.err = "Empty"

\* C7: with vnodes >= 1 and Size() >= 1, GetServer returns no error and does
\* not panic.
C7_PopulatedSucceeds ==
    (IsLookup /\ vnodes >= 1 /\ Cardinality(servers) >= 1) => ret.err = "nil"

\* a lookup that succeeded on a ring with fewer servers than have been
\* added: serverKeys holds a position that ring does not
C7_Witness ==
    /\ IsLookup /\ vnodes >= 1 /\ Cardinality(servers) >= 1 /\ ret.err = "nil"
    /\ Positions # DOMAIN ring

\* C8: every server name a successful GetServer returns is a member.
C8_ReturnsMember ==
    (IsLookup /\ ret.err = "nil") => ret.server \in servers

\* C9: s is in servers iff the latest AddServer(s) or RemoveServer(s) call
\* that returned nil is an AddServer(s).
C9_MembersFollowCalls == servers = live

\* a RemoveServer that returned nil and left other members
C9_Witness ==
    /\ ret.op = "RemoveServer" /\ ret.err = "nil"
    /\ ret.arg \notin servers /\ servers # {}

\* C10: an AddServer(n) that returns nil on a ring with members leaves every
\* key's GetServer result as it was or makes it n.
C10_AddMovesOnlyToNew ==
    [][(ret'.op = "AddServer" /\ ret'.err = "nil" /\ servers # {})
          => \A k \in Keys :
                \/ GetServerResult(k)' = GetServerResult(k)
                \/ GetServerResult(k)' = [server |-> ret'.arg, err |-> "nil"]]_vars

\* an AddServer on a ring with members that took some keys and left others
C10_Witness ==
    /\ ret.op = "AddServer" /\ ret.err = "nil" /\ Cardinality(servers) >= 2
    /\ \E k \in Keys : GetServerResult(k).server = ret.arg
    /\ \E k \in Keys : GetServerResult(k).server \in servers \ {ret.arg}

----------------------------------------------------------------------------
(* C11..C20 *)

\* the step is a RemoveServer call that returned nil
RemovedOk == ret'.op = "RemoveServer" /\ ret'.err = "nil"

\* the step is an AddServer call that returned nil
AddedOk == ret'.op = "AddServer" /\ ret'.err = "nil"

\* the hashes of the virtual nodes of server s
VNodesOf(s) == {hashKey(Sprintf(s, i)) : i \in 0..(vnodes - 1)}

\* the keys of ring whose value is s
EntriesOf(rg, s) == {p \in DOMAIN rg : rg[p] = s}

\* s is ascending
Ascending(s) == \A i \in 1..(Len(s) - 1) : ~U32Less(s[i + 1], s[i])

\* the first of the positions ps clockwise from hash
FirstClockwise(ps, hash) ==
    IF {p \in ps : U32Geq(p, hash)} # {}
       THEN Smallest({p \in ps : U32Geq(p, hash)})
       ELSE Smallest(ps)

\* C11: a RemoveServer(s) that returns nil and leaves a member leaves the
\* GetServer result of every key that resolved to another member as it was.
C11_RemoveKeepsOthers ==
    [][(RemovedOk /\ servers' # {})
          => \A k \in Keys :
                (/\ GetServerResult(k).err = "nil"
                 /\ GetServerResult(k).server \in servers \ {ret'.arg})
                    => GetServerResult(k)' = GetServerResult(k)]_vars

\* C12: a RemoveServer(s) that returns nil and leaves a member makes every
\* key that resolved to s resolve to a remaining member that has the first
\* virtual node clockwise from the key's hash among the virtual nodes of the
\* remaining members.
C12_RemoveHandsOver ==
    [][(RemovedOk /\ servers' # {})
          => \A k \in Keys :
                GetServerResult(k) = [server |-> ret'.arg, err |-> "nil"]
                    => LET rest == UNION {VNodesOf(s) : s \in servers'}
                           res == GetServerResult(k)'
                       IN  /\ res.err = "nil"
                           /\ res.server \in servers'
                           /\ FirstClockwise(rest, hashKey(k)) \in VNodesOf(res.server)]_vars

\* C13: Size() returns the number of members; an AddServer that returns nil
\* raises that number by one, a RemoveServer that returns nil lowers it by
\* one, and a call that returns an error leaves it.
C13_SizeCountsMembers ==
    [][/\ ret'.op = "Size" => (ret'.n = Cardinality(live) /\ ret'.n = Cardinality(servers))
       /\ AddedOk => Cardinality(servers') = Cardinality(servers) + 1
       /\ RemovedOk => Cardinality(servers') = Cardinality(servers) - 1
       /\ ret'.err \in {"AlreadyExists", "NotFound"}
             => Cardinality(servers') = Cardinality(servers)]_vars

\* Size() on a ring with two virtual nodes for each of several members
C13_Witness ==
    /\ ret.op = "Size" /\ ret.n >= 2 /\ Len(serverKeys) = 2 * ret.n

\* C14: a RemoveServer(s) that returns nil takes exactly vnodes entries out
\* of ring, all with value s, and exactly vnodes elements out of serverKeys,
\* which stays ascending.
C14_RemoveTakesVNodes ==
    [][RemovedOk
          => /\ DOMAIN ring' \subseteq DOMAIN ring
             /\ Cardinality((DOMAIN ring) \ (DOMAIN ring')) = vnodes
             /\ \A p \in (DOMAIN ring) \ (DOMAIN ring') : ring[p] = ret'.arg
             /\ Len(serverKeys') = Len(serverKeys) - vnodes
             /\ Ascending(serverKeys')]_vars

\* C15: GetServers() returns the members, each once, in ascending order.
C15_ServersSorted ==
    ret.op = "GetServers"
        => /\ {ret.list[i] : i \in 1..Len(ret.list)} = servers
           /\ servers = live
           /\ Len(ret.list) = Cardinality(servers)
           /\ \A i \in 1..(Len(ret.list) - 1) : StrLess(ret.list[i], ret.list[i + 1])

\* GetServers() on four members, with a position that has no ring entry
\* since some server was removed
C15_Witness ==
    /\ ret.op = "GetServers" /\ Len(ret.list) = 4
    /\ Positions # DOMAIN ring

Colliding(s) == {t \in onceAdded \ {s} : VNodesOf(t) \cap VNodesOf(s) # {}}

----------------------------------------------------------------------------
(* Properties of concurrent callers, under SpecConc *)

\* goroutine g is in a call
InCall(g) == pc[g] \notin {"idle", "panicked"}

\* goroutine g is in a call that changes the membership
Mutating(g) == call[g].op \in {"AddServer", "RemoveServer"}

\* goroutine g holds the read lock
HoldsRead(g) ==
    pc[g] \in {"Read", "RUnlock", "DistLoop", "RLockIn", "RLockWaitIn", "ReadIn", "RUnlockIn"}

\* goroutine g is about to read the fields in GetServer, GetServers or Size
Reading(g) == pc[g] \in {"Read", "ReadIn"}

\* goroutine g cannot take its next step
Blocked(g) ==
    \/ pc[g] = "Lock" /\ mu.w # 0
    \/ pc[g] = "LockWait" /\ mu.writerSem = 0
    \/ pc[g] \in {"RLockWait", "RLockWaitIn"} /\ mu.readerSem = 0

\* the goroutines a blocked goroutine waits for: the holder of rw.w, the
\* readers a writer has counted, the writer a reader was counted behind
WaitsFor(g) ==
    IF pc[g] = "Lock" THEN {mu.w} \ {0}
    ELSE IF pc[g] = "LockWait"
            THEN {h \in Procs \ {g} :
                     HoldsRead(h) \/ (pc[h] = "RLockWait" /\ mu.readerSem > 0)}
            ELSE {mu.w} \ {0}

RECURSIVE CanReturn(_, _)
\* the goroutines in a call that can return: those not blocked and, n times
\* over, those that wait only for goroutines that can
CanReturn(done, n) ==
    IF n = 0 THEN done
    ELSE CanReturn(done \cup {g \in Procs :
                        /\ InCall(g)
                        /\ \/ ~Blocked(g)
                           \/ WaitsFor(g) # {} /\ WaitsFor(g) \subseteq done},
                   n - 1)

\* the goroutines in a call that can return
Returning == CanReturn({}, NumProcs)

\* C16: a GetServer, GetServers or Size call that reads the ring reads it as
\* the last completed mutation left it, never in the middle of one: every
\* member has all its positions in serverKeys and serverKeys is ascending.
C16_ReadersSeeWholeMutations ==
    \A g \in Procs :
        Reading(g) =>
            /\ Fields = snap
            /\ Ascending(serverKeys)
            /\ \A s \in servers :
                   VNodesOf(s) \subseteq {serverKeys[i] : i \in 1..Len(serverKeys)}

\* a reader holds the read lock on a populated ring while a mutation waits
\* for it
C16_Witness ==
    \E g, h \in Procs :
        /\ Reading(g) /\ servers # {}
        /\ Mutating(h) /\ pc[h] = "LockWait"

\* C17: with vnodes >= 1 and no GetDistribution call, no call panics and no
\* call waits in a cycle: every goroutine in a call can return.
C17_NoPanicNoDeadlock ==
    (vnodes >= 1 /\ ~distCalled) =>
        /\ \A g \in Procs : pc[g] # "panicked" /\ got[g].err # "panic"
        /\ \A g \in Procs : InCall(g) => g \in Returning

\* a mutation is in its loop while another mutation waits for the lock
C17_Witness ==
    \E g, h \in Procs :
        /\ vnodes >= 1 /\ ~distCalled
        /\ pc[g] = "RemoveLoop" /\ iter[g] >= 1
        /\ call[h].op = "AddServer" /\ pc[h] = "Lock"

\* C18: GetDistribution and the mutations that run beside it always return:
\* in every state, every goroutine in a call can return.
C18_AlwaysReturns ==
    \A g \in Procs : InCall(g) => g \in Returning

\* C19: on a ring with a member and no mutation in progress, a GetServer
\* call of any goroutine returns a nil error and the server a sequential
\* GetServer call returns for its key.
C19_ConcurrentLookups ==
    \A g \in Procs :
        ( /\ pc[g] = "RUnlock" /\ call[g].op = "GetServer"
          /\ Cardinality(servers) >= 1
          /\ \A h \in Procs : ~Mutating(h) )
        => /\ got[g].err = "nil"
           /\ got[g] = GetServerResult(call[g].arg)

\* two goroutines have looked up different keys at the same time and got
\* different servers
C19_Witness ==
    \E g, h \in Procs :
        /\ pc[g] = "RUnlock" /\ call[g].op = "GetServer"
        /\ pc[h] = "RUnlock" /\ call[h].op = "GetServer"
        /\ call[g].arg # call[h].arg
        /\ got[g].err = "nil" /\ got[h].err = "nil"
        /\ got[g].server # got[h].server
        /\ \A k \in Procs : ~Mutating(k)

----------------------------------------------------------------------------
(* Invariants of the fields between calls, under Spec and SpecHist *)

\* the server names that occur as values of ring
Owners == {ring[p] : p \in DOMAIN ring}

\* C21: between calls serverKeys is in ascending order.
C21_KeysAscending == Ascending(serverKeys)

\* a removal has taken an element out of the middle of serverKeys, with
\* elements left on both sides
C21_Witness ==
    /\ ret.op = "RemoveServer" /\ ret.err = "nil"
    /\ Len(serverKeys) >= 2
    /\ \E i \in 1..(Len(serverKeys) - 1) :
           \E p \in VNodesOf(ret.arg) :
               U32Less(serverKeys[i], p) /\ U32Less(p, serverKeys[i + 1])

\* C22: between calls serverKeys has no duplicate and its elements are
\* exactly the keys of ring.
C22_KeysAreRingKeys ==
    /\ \A i, j \in 1..Len(serverKeys) : serverKeys[i] = serverKeys[j] => i = j
    /\ Positions = DOMAIN ring

C27_VNodesFixed ==
    /\ [](ret.op = "New" =>
            vnodes = ret.n /\ servers = {} /\ DOMAIN ring = {} /\ serverKeys = <<>>)
    /\ [][vnodes' = vnodes]_vars

\* a ring of several virtual nodes per server after a server was added and
\* removed again
C27_Witness ==
    /\ vnodes >= 2
    /\ ret.op = "RemoveServer" /\ ret.err = "nil"
    /\ servers # {}

\* goroutine g holds the write lock
HoldsWrite(g) ==
    pc[g] \in {"AddCheck", "AddLoop", "AddSort", "RemoveCheck", "RemoveLoop", "Unlock"}

\* C30: while a goroutine holds the write lock in AddServer or RemoveServer,
\* no other goroutine holds the write lock or the read lock.
C30_MutationsExclusive ==
    \A g, h \in Procs :
        (HoldsWrite(g) /\ h # g) => ~HoldsWrite(h) /\ ~HoldsRead(h)

\* an AddServer call is past its first virtual node while a reader that
\* came after it waits for the read lock
C30_Witness ==
    \E g, h \in Procs :
        /\ pc[g] = "AddLoop" /\ iter[g] >= 1
        /\ pc[h] = "RLockWait"

----------------------------------------------------------------------------
(* The reporting methods, under SpecAll *)

RECURSIVE SumOver(_, _)
\* the sum of the counts of dist over the names in names
SumOver(dist, names) ==
    IF names = {} THEN 0
    ELSE LET name == CHOOSE x \in names : TRUE
         IN  dist[name] + SumOver(dist, names \ {name})

\* the sum of all counts of dist
Total(dist) == SumOver(dist, DOMAIN dist)

\* the last call was GetDistribution
IsDistribution == ret.op = "GetDistribution"

\* C24: the keys of the map GetDistribution returns are exactly the members
\* (on a ring with vnodes >= 1, as the data model has it).
C24_DistributionKeysAreMembers ==
    (IsDistribution /\ vnodes >= 1) => ret.err = "nil" /\ DOMAIN ret.dist = servers

\* C25: the counts GetDistribution returns sum to the number of keys of the
\* batch whose lookup succeeds: to len(keys) on a ring with members, to 0
\* with an empty map and no error on an empty ring.
C25_CountsSumToLookups ==
    (IsDistribution /\ vnodes >= 1) =>
        /\ ret.err = "nil"
        /\ Total(ret.dist) =
              Cardinality({i \in 1..Len(ret.keys) : GetServerResult(ret.keys[i]).err = "nil"})
        /\ servers # {} => Total(ret.dist) = Len(ret.keys)
        /\ servers = {} => Total(ret.dist) = 0 /\ DOMAIN ret.dist = {}

\* a batch with the same key twice on a ring of several members: one member
\* has both, another has none
C25_Witness ==
    /\ IsDistribution /\ vnodes >= 1 /\ ret.err = "nil"
    /\ ret.keys = <<KeyLow, KeyLow>>
    /\ \E s, t \in servers : ret.dist[s] = 2 /\ ret.dist[t] = 0

\* the calls that only read
Readers == {"GetServer", "GetServers", "Size", "GetDistribution", "AnalyzePerformance"}

\* C26: a reading call, and a call that fails, leaves servers, ring and
\* serverKeys as they are.
C26_ReadersChangeNothing ==
    [][(ret'.op \in Readers \/ ret'.err # "nil") =>
          UNCHANGED <<servers, ring, serverKeys>>]_vars

\* AnalyzePerformance has reported on a ring with several members
C26_Witness ==
    /\ ret.op = "AnalyzePerformance" /\ ret.err = "nil"
    /\ Cardinality(servers) >= 2
    /\ ret.count >= 2

----------------------------------------------------------------------------
(* The sampled keys, under SpecSample *)

\* the fewest and the most keys that may move
MinMoved == 150
MaxMoved == 350

\* a loop over the keys has come to its end
PassDone == test.phase \in {"grow", "done"}

\* the keys key-0..key-999 have been looked up again with server4 a member
Compared == test.phase \in {"check", "done"} /\ test.i >= ChurnKeys

\* C28: with 150 virtual nodes and the members server1..server3, adding
\* server4 changes the server of at least 150 and of at most 350 of the 1000
\* keys key-0..key-999.
C28_BoundedChurn ==
    Compared => MinMoved <= test.moved /\ test.moved <= MaxMoved

\* server4 is a member and the 1000 keys are looked up again: some have moved,
\* all of them to server4, and the others stayed
C28_Witness ==
    /\ Compared
    /\ vnodes = SampleVNodes
    /\ servers = {SampleServer(j) : j \in 1..(FirstServers + 1)}
    /\ Len(test.keyToServer) = ChurnKeys
    /\ test.moved > 0 /\ test.moved < ChurnKeys
    /\ \A i \in 1..ChurnKeys :
          GetServerResult(SampleKey(i - 1)).server \in {test.keyToServer[i], SampleServer(FirstServers + 1)}

RECURSIVE SumSquares(_, _)
\* the sum of the squares of the counts of dist over the names in names
SumSquares(dist, names) ==
    IF names = {} THEN 0
    ELSE LET name == CHOOSE x \in names : TRUE
         IN  dist[name] * dist[name] + SumSquares(dist, names \ {name})

\* the population standard deviation of the counts is at most percent
\* hundredths of their mean: with n counts of sum S and squares Q,
\* n*Q - S*S <= (percent/100)^2 * S*S, kept within 32 bits for the sums of
\* the samples, which are multiples of 10
DeviationWithin(dist, percent) ==
    LET n == Cardinality(DOMAIN dist)
        S == Total(dist)
        Q == SumSquares(dist, DOMAIN dist)
    IN  100 * (n * Q - S * S) <= (percent * percent) * ((S * S) \div 100)

\* every count is within percent hundredths of the mean
CountsWithin(dist, percent) ==
    LET n == Cardinality(DOMAIN dist)
        S == Total(dist)
    IN  \A s \in DOMAIN dist :
           /\ 100 * (n * dist[s] - S) <= percent * S
           /\ 100 * (S - n * dist[s]) <= percent * S

\* C29: with at least 150 virtual nodes and at least 3 servers, the counts of
\* the servers over the sampled keys have a coefficient of variation of at
\* most 10%, and every count is within 20% of the mean.
C29_Balanced ==
    (PassDone /\ vnodes >= 150 /\ Cardinality(servers) >= 3) =>
        /\ DeviationWithin(test.dist, 10)
        /\ CountsWithin(test.dist, 20)

----------------------------------------------------------------------------
(* A ring without virtual nodes *)

\* C33: a ring made with virtualNodes <= 0 stays empty for lookups: after any
\* calls of AddServer and RemoveServer, GetServer returns the error for an
\* empty ring, for every key, and does not panic.
C33_EmptyForever ==
    (vnodes <= 0 /\ ret.op = "GetServer") => ret.err = "Empty"

----------------------------------------------------------------------------
(* The report of AnalyzePerformance, under SpecAll *)

\* AnalyzePerformance has returned a report
IsReport == ret.op = "AnalyzePerformance" /\ ret.err = "nil"

\* C34: the report of AnalyzePerformance(keys) has TotalKeys equal to the
\* number of keys, Servers equal to what Size returns in the same state, and
\* Distribution equal to what GetDistribution(keys) returns in that state.
C34_ReportMatchesRing ==
    IsReport =>
        /\ ret.n = Len(ret.keys)
        /\ ret.count = Cardinality(servers)
        /\ ret.dist = GetDistributionResult(ret.keys).dist

\* C35: AnalyzePerformance returns a report for every batch, the empty one
\* included, and on every ring, one without members included (with
\* vnodes >= 1, as the data model has it): it does not panic.
C35_AlwaysReports ==
    (ret.op = "AnalyzePerformance" /\ vnodes >= 1) => ret.err = "nil"

----------------------------------------------------------------------------
(* RemoveServer and the hashes it looks for *)

----------------------------------------------------------------------------
(* The order of the calls, under SpecOrder *)

\* C37: AddServer(s) on a non-member and, right after it, RemoveServer(s)
\* leave servers, ring and serverKeys as they were before the AddServer, and
\* with them the server of every key.
C37_AddRemoveRestores ==
    [][(/\ prior.set
        /\ ret'.op = "RemoveServer"
        /\ ret'.arg = prior.server
        /\ ret'.err = "nil"
        /\ vnodes >= 1)
          => /\ <<servers', ring', serverKeys'>> = prior.fields
             /\ \A key \in Keys :
                   Lookup(servers', ring', serverKeys', key)
                      = Lookup(prior.fields[1], prior.fields[2], prior.fields[3], key)]_vars

\* the members that have a virtual node at hash p, in the order they were added
AddedAt(p) == SelectSeq(addOrder, LAMBDA s : p \in VNodesOf(s))

\* the hash GetServer(key) resolves to, for a ring with members and keys
ResolvedAt(key) ==
    LET found == Search(serverKeys, hashKey(key))
    IN  serverKeys[(IF found = Len(serverKeys) THEN 0 ELSE found) + 1]

\* C32: the last insertion wins on a collision: every hash of a virtual node
\* of a member is mapped by ring to the member added last among the members
\* that have a virtual node there, and a GetServer that resolves to the hash
\* returns that member (with vnodes >= 1, as the data model has it).
C32_LastInsertionWins ==
    vnodes >= 1 =>
        /\ \A s \in servers : \A p \in VNodesOf(s) :
              /\ p \in DOMAIN ring
              /\ ring[p] = AddedAt(p)[Len(AddedAt(p))]
        /\ \A key \in Keys :
              servers # {} =>
                 /\ GetServerResult(key).err = "nil"
                 /\ ResolvedAt(key) \in DOMAIN ring
                 /\ GetServerResult(key).server = ring[ResolvedAt(key)]

----------------------------------------------------------------------------
(* The ring as a function of the members *)

\* the servers in one fixed order, and in the opposite one
ServerOrder == <<SrvA, SrvB, SrvC, SrvD, SrvE>>
ServerOrderBack == <<SrvE, SrvD, SrvC, SrvB, SrvA>>

\* ring and serverKeys of a ring with the same vnodes after AddServer of the
\* first k servers of order that are in members, in that order
RECURSIVE AddInOrder(_, _, _)
AddInOrder(order, members, k) ==
    IF k = 0
       THEN [ring |-> EmptyMap, keys |-> <<>>]
       ELSE LET before == AddInOrder(order, members, k - 1)
                added == AddVNodes(before.ring, before.keys, order[k], 0, vnodes)
            IN  IF order[k] \in members
                   THEN [ring |-> added.ring, keys |-> SortKeys(added.keys)]
                   ELSE before

\* the ring that reaches the members of this one by AddServer calls in order
Rebuilt(order) == AddInOrder(order, servers, Len(order))

\* this ring and the one rebuilt in order have the same ring and serverKeys
\* and resolve every key to the same server
SameAsRebuilt(order) ==
    LET other == Rebuilt(order)
    IN  /\ ring = other.ring
        /\ serverKeys = other.keys
        /\ \A key \in Keys :
              GetServerResult(key) = Lookup(servers, other.ring, other.keys, key)

----------------------------------------------------------------------------
(* GetDistribution and the writers *)

\* goroutine g is in GetDistribution between two of its lookups: one is
\* done, another is to come
BetweenLookups(g) ==
    /\ call[g].op = "GetDistribution"
    /\ pc[g] = "DistLoop"
    /\ iter[g] \in 1..(Len(DistKeys) - 1)

\* goroutine g is in GetDistribution, after h.mu.RLock() and before the
\* deferred h.mu.RUnlock()
InBatch(g) ==
    /\ call[g].op = "GetDistribution"
    /\ pc[g] \in {"DistLoop", "RLockIn", "RLockWaitIn", "ReadIn", "RUnlockIn", "RUnlock"}

\* C31: GetDistribution is not atomic across its batch: an AddServer or
\* RemoveServer that calls h.mu.Lock() between two lookups of a
\* GetDistribution, with no other goroutine in a call, gets the lock and
\* takes effect before the next lookup: it does not wait for the batch.
C31_WriterBetweenLookups ==
    [][\A g, w \in Procs :
          (/\ BetweenLookups(g)
           /\ pc[w] = "Lock" /\ pc'[w] # "Lock"
           /\ \A h \in Procs \ {g, w} : pc[h] = "idle")
             => pc'[w] \in {"AddCheck", "RemoveCheck"}]_vars

\* the fields of the ring do not change while a GetDistribution is in its batch
BatchSeesOneRing ==
    [][(\E g \in Procs : InBatch(g)) => Fields' = Fields]_vars

====
